---- MODULE Spec2Model ----
\* Model of the pull parser of xpp.go (XMLPullParser): the one-token lookahead
\* of NextToken/peekNextToken, the coalescing loop of Next, and the cursor
\* operations NextTag, NextText and Skip built on them.  The xml.Decoder the
\* parser owns is the environment: it hands out one token per Token() call.
EXTENDS Integers, Sequences, FiniteSets, TLC

\* ------------------------------------------------------------------ bounds
\* Tokens the decoder returns before the input ends (by io.EOF or by an error).
MaxTokens == 5
\* Deepest element nesting of the input.
MaxDepth == 2

\* ------------------------------------------------------------ event kinds
\* const ( StartDocument XMLEventType = iota ... ): StartDocument is the zero
\* value, which a named result `event` holds when it was never assigned.
StartDocument == "StartDocument"
EndDocument == "EndDocument"
StartTag == "StartTag"
EndTag == "EndTag"
Text == "Text"
Comment == "Comment"
ProcessingInstruction == "ProcessingInstruction"
Directive == "Directive"
IgnorableWhitespace == "IgnorableWhitespace"

\* ----------------------------------------------------------------- errors
NoErr == "nil"
EOF == "io.EOF"
SyntaxError == "xml.SyntaxError"
ErrExpectedTag == "Expected StartTag or EndTag but got"
ErrNotOnStartTag == "Parser must be on StartTag to get NextText()"
ErrTextNotFollowedByEndTag == "Event Text must be immediately followed by EndTag"
ErrNotStartOrText == "Parser must be on StartTag or Text to read text"
ErrExpected == "Expected Space:%s Name:%s Event:%s but got Space:%s Name:%s Event:%s"

\* ---------------------------------------------------------------- strings
\* Payload strings are sequences of one-character strings, so that += is \o.
\* strings.TrimSpace: drop leading and trailing white space.
RECURSIVE TrimLeft(_)
TrimLeft(s) ==
    IF s # <<>> /\ Head(s) = " " THEN TrimLeft(Tail(s)) ELSE s

RECURSIVE TrimRight(_)
TrimRight(s) ==
    IF s # <<>> /\ s[Len(s)] = " " THEN TrimRight(SubSeq(s, 1, Len(s) - 1)) ELSE s

TrimSpace(s) == TrimRight(TrimLeft(s))

\* strings.ToLower on the characters the inputs use.
ToLower(s) == [i \in 1..Len(s) |-> IF s[i] = "P" THEN "p" ELSE s[i]]

\* ----------------------------------------------------------------- tokens
\* xml.Token values; NilToken is the nil interface value.
NilToken ==
    [type |-> "nil", Space |-> "", Local |-> "", Attr |-> <<>>, Data |-> <<>>, Target |-> <<>>]

StartElement(space, local, attr) ==
    [type |-> "StartElement", Space |-> space, Local |-> local, Attr |-> attr,
     Data |-> <<>>, Target |-> <<>>]

EndElement(space, local) ==
    [type |-> "EndElement", Space |-> space, Local |-> local, Attr |-> <<>>,
     Data |-> <<>>, Target |-> <<>>]

CharData(data) ==
    [type |-> "CharData", Space |-> "", Local |-> "", Attr |-> <<>>, Data |-> data,
     Target |-> <<>>]

CommentTok(data) ==
    [type |-> "Comment", Space |-> "", Local |-> "", Attr |-> <<>>, Data |-> data,
     Target |-> <<>>]

ProcInst(target, inst) ==
    [type |-> "ProcInst", Space |-> "", Local |-> "", Attr |-> <<>>, Data |-> inst,
     Target |-> target]

DirectiveTok(data) ==
    [type |-> "Directive", Space |-> "", Local |-> "", Attr |-> <<>>, Data |-> data,
     Target |-> <<>>]

\* xml.Attr{Name{Space, Local}, Value}
Attr(space, local, value) == [Space |-> space, Local |-> local, Value |-> value]

\* The namespace the decoder gives the attributes with the prefix xml.
XMLNamespace == "http://www.w3.org/XML/1998/namespace"

\* The start tags of the inputs: <a>, and
\* <P:b xmlns:P="u " xmlns="v" xml:base="r/">: a prefix declaration (which the
\* tracker lower-cases and trims), a default namespace declaration and a
\* relative base.
StartTokens ==
    { StartElement("", "a", <<>>),
      StartElement("u ", "b",
                   <<Attr("xmlns", <<"P">>, <<"u", " ">>),
                     Attr("", <<"x", "m", "l", "n", "s">>, <<"v">>),
                     Attr(XMLNamespace, <<"b", "a", "s", "e">>, <<"r", "/">>)>>) }

\* Character data: empty (an empty CDATA section), white space, and text.
CharDataTokens == { CharData(<<>>), CharData(<<" ">>), CharData(<<"x">>) }

OtherTokens ==
    { CommentTok(<<"c">>), ProcInst(<<"t">>, <<"i">>), DirectiveTok(<<"d">>) }

\* ---------------------------------------------------------------- decoder
\* The xml.Decoder behind p.Decoder.Token(): stk is its stack of open elements,
\* err its sticky error (io.EOF at the end of the input), n the number of tokens
\* it has returned, and prev/last the two tokens returned most recently.
NewDecoder ==
    [stk |-> <<>>, err |-> NoErr, n |-> 0, prev |-> NilToken, last |-> NilToken]

Returned(dc, tok, stk) ==
    [tok |-> tok, err |-> NoErr,
     d |-> [dc EXCEPT !.stk = stk, !.n = @ + 1, !.prev = dc.last, !.last = tok]]

Failed(dc, err) ==
    [tok |-> NilToken, err |-> err, d |-> [dc EXCEPT !.err = err]]

\* The outcomes of one Decoder.Token() call.  A strict decoder returns end tags
\* that match the open element, io.EOF only when no element is open, and a
\* syntax error wherever the input is malformed or ends early.
Token(dc) ==
    IF dc.err # NoErr THEN { Failed(dc, dc.err) }
    ELSE
        { Failed(dc, SyntaxError) }
        \cup (IF dc.stk = <<>> THEN { Failed(dc, EOF) } ELSE {})
        \cup (IF dc.n >= MaxTokens THEN {}
              ELSE
                { Returned(dc, t, dc.stk) : t \in CharDataTokens \cup OtherTokens }
                \cup (IF Len(dc.stk) < MaxDepth
                      THEN { Returned(dc, t, Append(dc.stk, t)) : t \in StartTokens }
                      ELSE {})
                \cup (IF dc.stk # <<>>
                      THEN { Returned(dc,
                                 EndElement(dc.stk[Len(dc.stk)].Space,
                                            dc.stk[Len(dc.stk)].Local),
                                 SubSeq(dc.stk, 1, Len(dc.stk) - 1)) }
                      ELSE {}))

\* ------------------------------------------------------------- base URIs
\* The base-URI stack (BaseStack, Top) that the tests use is not part of
\* xpp.go; it is modelled as the specification describes it.  A URL is its
\* scheme and authority (root, empty when it has none), whether its path
\* begins with "/" (rooted), the segments of the path, and whether the path
\* ends with "/" (dir).  NoURL is the undefined value.
NoURL == [root |-> <<>>, rooted |-> FALSE, path |-> <<>>, dir |-> FALSE]

\* The segments of a path: the pieces between its "/" characters.
RECURSIVE Segments(_, _)
Segments(chars, seg) ==
    IF chars = <<>> THEN (IF seg = <<>> THEN <<>> ELSE <<seg>>)
    ELSE IF Head(chars) = "/"
    THEN (IF seg = <<>> THEN <<>> ELSE <<seg>>) \o Segments(Tail(chars), <<>>)
    ELSE Segments(Tail(chars), Append(seg, Head(chars)))

\* The URL a reference without scheme is parsed to.
ParseURL(chars) ==
    [root |-> <<>>, rooted |-> chars # <<>> /\ Head(chars) = "/",
     path |-> Segments(chars, <<>>), dir |-> chars # <<>> /\ chars[Len(chars)] = "/"]

\* Relative-reference resolution: a reference with a scheme replaces the base,
\* one with an absolute path replaces the path, a relative one is joined to
\* the directory of the base's path.
ResolveReference(base, ref) ==
    IF ref.root # <<>> THEN ref
    ELSE IF ref.rooted THEN [base EXCEPT !.rooted = TRUE, !.path = ref.path, !.dir = ref.dir]
    ELSE [base EXCEPT
            !.path = (IF base.dir \/ base.path = <<>> THEN base.path
                      ELSE SubSeq(base.path, 1, Len(base.path) - 1)) \o ref.path,
            !.dir = ref.dir]

\* BaseStack.Top(): the top entry, or the undefined value when no element is
\* open.
Top(stack) == IF stack = <<>> THEN NoURL ELSE stack[Len(stack)]

\* The value of the xml:base attribute among attrs, or the empty string.
RECURSIVE baseAttr(_)
baseAttr(attrs) ==
    IF attrs = <<>> THEN <<>>
    ELSE IF Head(attrs).Space = XMLNamespace /\ Head(attrs).Local = <<"b", "a", "s", "e">>
    THEN Head(attrs).Value
    ELSE baseAttr(Tail(attrs))

\* Mutant: an element without xml:base pushes nothing.
pushBaseWhenDeclared(q, t) ==
    IF baseAttr(t.Attr) = <<>> THEN q
    ELSE [q EXCEPT !.BaseStack =
            Append(@, ResolveReference(Top(@), ParseURL(baseAttr(t.Attr))))]

\* Mutant: an element without xml:base pushes the undefined value, not a copy
\* of the top.
pushBaseNoInheritance(q, t) ==
    [q EXCEPT !.BaseStack =
        Append(@, IF baseAttr(t.Attr) = <<>> THEN NoURL
                  ELSE ResolveReference(Top(@), ParseURL(baseAttr(t.Attr))))]

\* On a start tag: push the xml:base of the element resolved against the top,
\* or a copy of the top when the element has none.
pushBase(q, t) ==
    [q EXCEPT !.BaseStack =
        Append(@, IF baseAttr(t.Attr) = <<>> THEN Top(@)
                  ELSE ResolveReference(Top(@), ParseURL(baseAttr(t.Attr))))]

\* On an end tag: pop one entry.
popBase(q) ==
    [q EXCEPT !.BaseStack = IF @ = <<>> THEN @ ELSE SubSeq(@, 1, Len(@) - 1)]

\* ----------------------------------------------------------------- parser
\* NewXMLPullParser: the zero value of every field but Event, Depth, Spaces;
\* BaseStack is the base-URI stack, empty at first.
NewXMLPullParser ==
    [Spaces |-> << >>, Depth |-> 0, Event |-> StartDocument, Attrs |-> <<>>,
     Name |-> "", Space |-> "", Text |-> <<>>,
     token |-> NilToken, peekToken |-> NilToken, peekEvent |-> StartDocument,
     peekErr |-> NoErr, BaseStack |-> <<>>]

\* Mutant: the fields of the previous token are cleared except Attrs and Text.
resetTokenStateKeepsContent(q) ==
    [q EXCEPT !.Name = "", !.Space = ""]

resetTokenState(q) ==
    [q EXCEPT !.Attrs = <<>>, !.Name = "", !.Space = "", !.Text = <<>>]

isWhitespace(q) == TrimSpace(q.Text) = <<>>

eventType(t) ==
    CASE t.type = "StartElement" -> StartTag
      [] t.type = "EndElement" -> EndTag
      [] t.type = "CharData" -> Text
      [] t.type = "Comment" -> Comment
      [] t.type = "ProcInst" -> ProcessingInstruction
      [] t.type = "Directive" -> Directive
      [] OTHER -> StartDocument

\* p.Spaces[k] = v on a map kept as a function.
MapPut(m, k, v) ==
    [x \in DOMAIN m \cup {k} |-> IF x = k THEN v ELSE m[x]]

RECURSIVE trackAttrs(_, _)
trackAttrs(spaces, attrs) ==
    IF attrs = <<>> THEN spaces
    ELSE LET attr == Head(attrs)
             next == IF attr.Space = "xmlns"
                     THEN MapPut(spaces, TrimSpace(attr.Value),
                                 TrimSpace(ToLower(attr.Local)))
                     ELSE IF attr.Local = <<"x", "m", "l", "n", "s">>
                     THEN MapPut(spaces, TrimSpace(attr.Value), <<>>)
                     ELSE spaces
         IN trackAttrs(next, Tail(attrs))

\* Mutant: the declarations are recorded as written, neither trimmed nor
\* lower-cased.
RECURSIVE trackAttrsVerbatim(_, _)
trackAttrsVerbatim(spaces, attrs) ==
    IF attrs = <<>> THEN spaces
    ELSE LET attr == Head(attrs)
             next == IF attr.Space = "xmlns"
                     THEN MapPut(spaces, attr.Value, attr.Local)
                     ELSE IF attr.Local = <<"x", "m", "l", "n", "s">>
                     THEN MapPut(spaces, attr.Value, <<>>)
                     ELSE spaces
         IN trackAttrsVerbatim(next, Tail(attrs))

trackNamespacesVerbatim(q, t) ==
    [q EXCEPT !.Spaces = trackAttrsVerbatim(q.Spaces, t.Attr)]

trackNamespaces(q, t) == [q EXCEPT !.Spaces = trackAttrs(q.Spaces, t.Attr)]

\* processStartToken, followed by the push on the base-URI stack.
processStartToken(q, t) ==
    pushBase(trackNamespaces(
                 [q EXCEPT !.Depth = @ + 1, !.Attrs = t.Attr, !.Name = t.Local,
                           !.Space = t.Space], t), t)

\* Mutant: the end tag leaves Depth as it is.
processEndTokenKeepsDepth(q, t) == popBase([q EXCEPT !.Name = t.Local])

\* processEndToken, followed by the pop of the base-URI stack.
processEndToken(q, t) == popBase([q EXCEPT !.Depth = @ - 1, !.Name = t.Local])

processCharDataToken(q, t) == [q EXCEPT !.Text = t.Data]

processCommentToken(q, t) == [q EXCEPT !.Text = t.Data]

processProcInstToken(q, t) == [q EXCEPT !.Text = t.Target \o <<" ">> \o t.Data]

processDirectiveToken(q, t) == [q EXCEPT !.Text = t.Data]

processToken(q, t) ==
    CASE t.type = "StartElement" -> processStartToken(q, t)
      [] t.type = "EndElement" -> processEndToken(q, t)
      [] t.type = "CharData" -> processCharDataToken(q, t)
      [] t.type = "Comment" -> processCommentToken(q, t)
      [] t.type = "ProcInst" -> processProcInstToken(q, t)
      [] t.type = "Directive" -> processDirectiveToken(q, t)
      [] OTHER -> q

\* Mutant: io.EOF is stored like any other error.
peekNextTokenStoresEOF(q, r) ==
    IF r.err # NoErr
    THEN [q EXCEPT !.peekErr = r.err]
    ELSE [q EXCEPT !.peekToken = r.tok, !.peekEvent = eventType(r.tok)]

\* peekNextToken with r the outcome of its Decoder.Token() call.  An error other
\* than io.EOF is stored and leaves peekToken and peekEvent as they were.
peekNextToken(q, r) ==
    IF r.err # NoErr
    THEN IF r.err = EOF
         THEN [q EXCEPT !.peekToken = NilToken, !.peekEvent = EndDocument]
         ELSE [q EXCEPT !.peekErr = r.err]
    ELSE [q EXCEPT !.peekToken = r.tok, !.peekEvent = eventType(r.tok)]

\* The parser and decoder after the priming peek of the first NextToken call.
Primed(q, dc) ==
    IF q.Event = StartDocument
    THEN { [p |-> peekNextToken(q, r), d |-> r.d] : r \in Token(dc) }
    ELSE { [p |-> q, d |-> dc] }

\* The lookahead becomes the current token, is processed, and is replaced.
Deliver(q, dc) ==
    LET cur == processToken([q EXCEPT !.Event = q.peekEvent, !.token = q.peekToken],
                            q.peekToken)
    IN { [p |-> peekNextToken(cur, r), d |-> r.d, event |-> cur.Event, err |-> NoErr,
          pulled |-> TRUE]
         : r \in Token(dc) }

\* Mutant: NextToken returns the stored error once and forgets it.
NextTokenForgetsError(q0, dc) ==
    LET q == resetTokenState(q0)
    IN IF q.peekErr # NoErr
       THEN { [p |-> [q EXCEPT !.peekErr = NoErr], d |-> dc, event |-> StartDocument,
               err |-> q.peekErr, pulled |-> FALSE] }
       ELSE IF q.Event = EndDocument
       THEN { [p |-> q, d |-> dc, event |-> q.Event, err |-> NoErr, pulled |-> FALSE] }
       ELSE UNION { Deliver(s.p, s.d) : s \in Primed(q, dc) }

\* The outcomes of one NextToken call: the parser and decoder after it, the
\* event and error it returns, and whether it moved the lookahead.
NextToken(q0, dc) ==
    LET q == resetTokenState(q0)
    IN IF q.peekErr # NoErr
       THEN { [p |-> q, d |-> dc, event |-> StartDocument, err |-> q.peekErr,
               pulled |-> FALSE] }
       ELSE IF q.Event = EndDocument
       THEN { [p |-> q, d |-> dc, event |-> q.Event, err |-> NoErr, pulled |-> FALSE] }
       ELSE UNION { Deliver(s.p, s.d) : s \in Primed(q, dc) }

\* -------------------------------------------------------------- operations
\* Mutant: Next returns a Text token as it comes, without coalescing.
NextFirstText(text, r) ==
    LET stay == [done |-> FALSE, event |-> r.event, err |-> NoErr, p |-> r.p,
                 text |-> text]
    IN IF r.err # NoErr
       THEN [stay EXCEPT !.done = TRUE, !.err = r.err]
       ELSE IF r.event \in {StartTag, EndTag, EndDocument, Text}
       THEN [stay EXCEPT !.done = TRUE]
       ELSE stay

\* Mutant: Next lets a Comment fall through to the coalescing code and so may
\* return on it.
NextStopsOnComment(text, r) ==
    LET stay == [done |-> FALSE, event |-> r.event, err |-> NoErr, p |-> r.p,
                 text |-> text]
    IN IF r.err # NoErr
       THEN [stay EXCEPT !.done = TRUE, !.err = r.err]
       ELSE IF r.event \in {StartTag, EndTag, EndDocument, Comment}
       THEN [stay EXCEPT !.done = TRUE]
       ELSE IF r.event \in {Directive, ProcessingInstruction}
       THEN [stay EXCEPT !.text = <<>>]
       ELSE LET coalesced == IF r.event = Text THEN text \o r.p.Text ELSE text
            IN IF coalesced # <<>>
                  /\ r.p.peekEvent \in {StartTag, EndTag, EndDocument}
               THEN [done |-> TRUE, event |-> Text, err |-> NoErr,
                     p |-> [r.p EXCEPT !.Text = coalesced], text |-> coalesced]
               ELSE [stay EXCEPT !.text = coalesced]

\* Mutant: Next returns the text it has as soon as it is not empty, whatever
\* the lookahead holds.
NextIgnoresLookahead(text, r) ==
    LET stay == [done |-> FALSE, event |-> r.event, err |-> NoErr, p |-> r.p,
                 text |-> text]
    IN IF r.err # NoErr
       THEN [stay EXCEPT !.done = TRUE, !.err = r.err]
       ELSE IF r.event \in {StartTag, EndTag, EndDocument}
       THEN [stay EXCEPT !.done = TRUE]
       ELSE IF r.event \in {Comment, Directive, ProcessingInstruction}
       THEN [stay EXCEPT !.text = <<>>]
       ELSE LET coalesced == IF r.event = Text THEN text \o r.p.Text ELSE text
            IN IF coalesced # <<>>
               THEN [done |-> TRUE, event |-> Text, err |-> NoErr,
                     p |-> [r.p EXCEPT !.Text = coalesced], text |-> coalesced]
               ELSE [stay EXCEPT !.text = coalesced]

\* Mutant: Next does not return on EndDocument.
NextPastEndDocument(text, r) ==
    LET stay == [done |-> FALSE, event |-> r.event, err |-> NoErr, p |-> r.p,
                 text |-> text]
    IN IF r.err # NoErr
       THEN [stay EXCEPT !.done = TRUE, !.err = r.err]
       ELSE IF r.event \in {StartTag, EndTag}
       THEN [stay EXCEPT !.done = TRUE]
       ELSE IF r.event \in {Comment, Directive, ProcessingInstruction}
       THEN [stay EXCEPT !.text = <<>>]
       ELSE LET coalesced == IF r.event = Text THEN text \o r.p.Text ELSE text
            IN IF coalesced # <<>>
                  /\ r.p.peekEvent \in {StartTag, EndTag, EndDocument}
               THEN [done |-> TRUE, event |-> Text, err |-> NoErr,
                     p |-> [r.p EXCEPT !.Text = coalesced], text |-> coalesced]
               ELSE [stay EXCEPT !.text = coalesced]

\* One iteration of the for loop of Next, with r the outcome of its NextToken
\* call and text the local it accumulates: whether Next returns, what it
\* returns, the parser after it and the new value of text.
Next(text, r) ==
    LET stay == [done |-> FALSE, event |-> r.event, err |-> NoErr, p |-> r.p,
                 text |-> text]
    IN IF r.err # NoErr
       THEN [stay EXCEPT !.done = TRUE, !.err = r.err]
       ELSE IF r.event \in {StartTag, EndTag, EndDocument}
       THEN [stay EXCEPT !.done = TRUE]
       ELSE IF r.event \in {Comment, Directive, ProcessingInstruction}
       THEN [stay EXCEPT !.text = <<>>]
       ELSE LET coalesced == IF r.event = Text THEN text \o r.p.Text ELSE text
            IN IF coalesced # <<>>
                  /\ r.p.peekEvent \in {StartTag, EndTag, EndDocument}
               THEN [done |-> TRUE, event |-> Text, err |-> NoErr,
                     p |-> [r.p EXCEPT !.Text = coalesced], text |-> coalesced]
               ELSE [stay EXCEPT !.text = coalesced]

\* The control state: pc is the loop that runs ("idle" between the caller's
\* calls), op the operation the caller invoked, phase the Next call of NextTag
\* or NextText that is under way, text the local of Next, result the local of
\* NextText, level the number of Skip frames on the stack.
Idle ==
    [pc |-> "idle", op |-> "none", phase |-> 0, text |-> <<>>, result |-> <<>>,
     level |-> 0]

\* What a call returned: the event, the error, and NextText's string.
Return(op, event, err, str) == [op |-> op, event |-> event, err |-> err, str |-> str]

\* Mutant: NextTag without its final check of the event.
NextTagUnchecked(c, q, event, err) ==
    IF err # NoErr
    THEN [ctl |-> Idle, done |-> TRUE,
          out |-> Return("NextTag", StartDocument, err, <<>>)]
    ELSE IF c.phase = 1 /\ event = Text /\ isWhitespace(q)
    THEN [ctl |-> [c EXCEPT !.phase = 2, !.text = <<>>], done |-> FALSE,
          out |-> Return("NextTag", event, NoErr, <<>>)]
    ELSE [ctl |-> Idle, done |-> TRUE, out |-> Return("NextTag", event, NoErr, <<>>)]

\* Mutant: NextTag skips a leading Text whatever it holds.
NextTagSkipsAnyText(c, q, event, err) ==
    IF err # NoErr
    THEN [ctl |-> Idle, done |-> TRUE,
          out |-> Return("NextTag", StartDocument, err, <<>>)]
    ELSE IF c.phase = 1 /\ event = Text
    THEN [ctl |-> [c EXCEPT !.phase = 2, !.text = <<>>], done |-> FALSE,
          out |-> Return("NextTag", event, NoErr, <<>>)]
    ELSE IF event # StartTag /\ event # EndTag
    THEN [ctl |-> Idle, done |-> TRUE,
          out |-> Return("NextTag", StartDocument, ErrExpectedTag, <<>>)]
    ELSE [ctl |-> Idle, done |-> TRUE, out |-> Return("NextTag", event, NoErr, <<>>)]

\* NextTag after its Next call number c.phase returned (event, err) with the
\* parser at q: the control state that follows and, when NextTag returns, what
\* it returns.
NextTag(c, q, event, err) ==
    IF err # NoErr
    THEN [ctl |-> Idle, done |-> TRUE,
          out |-> Return("NextTag", StartDocument, err, <<>>)]
    ELSE IF c.phase = 1 /\ event = Text /\ isWhitespace(q)
    THEN [ctl |-> [c EXCEPT !.phase = 2, !.text = <<>>], done |-> FALSE,
          out |-> Return("NextTag", event, NoErr, <<>>)]
    ELSE IF event # StartTag /\ event # EndTag
    THEN [ctl |-> Idle, done |-> TRUE,
          out |-> Return("NextTag", StartDocument, ErrExpectedTag, <<>>)]
    ELSE [ctl |-> Idle, done |-> TRUE, out |-> Return("NextTag", event, NoErr, <<>>)]

\* Mutant: NextText returns p.Text as it is after the EndTag, not the text it
\* captured.
NextTextCurrentText(c, q, event, err) ==
    IF err # NoErr
    THEN [ctl |-> Idle, done |-> TRUE,
          out |-> Return("NextText", StartDocument, err, <<>>)]
    ELSE IF c.phase = 1
    THEN IF event = Text
         THEN [ctl |-> [c EXCEPT !.phase = 2, !.text = <<>>, !.result = q.Text],
               done |-> FALSE, out |-> Return("NextText", event, NoErr, <<>>)]
         ELSE IF event = EndTag
         THEN [ctl |-> Idle, done |-> TRUE,
               out |-> Return("NextText", StartDocument, NoErr, <<>>)]
         ELSE [ctl |-> Idle, done |-> TRUE,
               out |-> Return("NextText", StartDocument, ErrNotStartOrText, <<>>)]
    ELSE IF event # EndTag
    THEN [ctl |-> Idle, done |-> TRUE,
          out |-> Return("NextText", StartDocument, ErrTextNotFollowedByEndTag, <<>>)]
    ELSE [ctl |-> Idle, done |-> TRUE,
          out |-> Return("NextText", StartDocument, NoErr, q.Text)]

\* Mutant: NextText returns the text it captured when what follows it is no
\* EndTag, instead of failing.
NextTextPartial(c, q, event, err) ==
    IF err # NoErr
    THEN [ctl |-> Idle, done |-> TRUE,
          out |-> Return("NextText", StartDocument, err, <<>>)]
    ELSE IF c.phase = 1
    THEN IF event = Text
         THEN [ctl |-> [c EXCEPT !.phase = 2, !.text = <<>>, !.result = q.Text],
               done |-> FALSE, out |-> Return("NextText", event, NoErr, <<>>)]
         ELSE IF event = EndTag
         THEN [ctl |-> Idle, done |-> TRUE,
               out |-> Return("NextText", StartDocument, NoErr, <<>>)]
         ELSE [ctl |-> Idle, done |-> TRUE,
               out |-> Return("NextText", StartDocument, ErrNotStartOrText, <<>>)]
    ELSE [ctl |-> Idle, done |-> TRUE,
          out |-> Return("NextText", StartDocument, NoErr, c.result)]

\* NextText after its Next call number c.phase returned (event, err).
NextText(c, q, event, err) ==
    IF err # NoErr
    THEN [ctl |-> Idle, done |-> TRUE,
          out |-> Return("NextText", StartDocument, err, <<>>)]
    ELSE IF c.phase = 1
    THEN IF event = Text
         THEN [ctl |-> [c EXCEPT !.phase = 2, !.text = <<>>, !.result = q.Text],
               done |-> FALSE, out |-> Return("NextText", event, NoErr, <<>>)]
         ELSE IF event = EndTag
         THEN [ctl |-> Idle, done |-> TRUE,
               out |-> Return("NextText", StartDocument, NoErr, <<>>)]
         ELSE [ctl |-> Idle, done |-> TRUE,
               out |-> Return("NextText", StartDocument, ErrNotStartOrText, <<>>)]
    ELSE IF event # EndTag
    THEN [ctl |-> Idle, done |-> TRUE,
          out |-> Return("NextText", StartDocument, ErrTextNotFollowedByEndTag, <<>>)]
    ELSE [ctl |-> Idle, done |-> TRUE,
          out |-> Return("NextText", StartDocument, NoErr, c.result)]

\* The caller of a Next call that returned (event, err).
AfterNext(c, q, event, err) ==
    CASE c.op = "NextTag" -> NextTag(c, q, event, err)
      [] c.op = "NextText" -> NextText(c, q, event, err)
      [] OTHER -> [ctl |-> Idle, done |-> TRUE, out |-> Return("Next", event, err, <<>>)]

\* Mutant: Skip without the recursion: it returns on the first EndTag.
SkipToFirstEnd(c, r) ==
    IF r.err # NoErr
    THEN [ctl |-> Idle, done |-> TRUE, out |-> Return("Skip", r.event, r.err, <<>>)]
    ELSE IF r.event = EndTag
    THEN [ctl |-> Idle, done |-> TRUE, out |-> Return("Skip", r.event, NoErr, <<>>)]
    ELSE [ctl |-> c, done |-> FALSE, out |-> Return("Skip", r.event, NoErr, <<>>)]

\* Mutant: an error ends only the innermost frame of Skip; the frame that
\* called it goes on with its loop.
SkipUnwindsOneFrame(c, r) ==
    IF r.err # NoErr /\ c.level > 1
    THEN [ctl |-> [c EXCEPT !.level = @ - 1], done |-> FALSE,
          out |-> Return("Skip", r.event, NoErr, <<>>)]
    ELSE IF r.err # NoErr
    THEN [ctl |-> Idle, done |-> TRUE, out |-> Return("Skip", r.event, r.err, <<>>)]
    ELSE IF r.event = StartTag
    THEN [ctl |-> [c EXCEPT !.level = @ + 1], done |-> FALSE,
          out |-> Return("Skip", r.event, NoErr, <<>>)]
    ELSE IF r.event = EndTag
    THEN IF c.level = 1
         THEN [ctl |-> Idle, done |-> TRUE, out |-> Return("Skip", r.event, NoErr, <<>>)]
         ELSE [ctl |-> [c EXCEPT !.level = @ - 1], done |-> FALSE,
               out |-> Return("Skip", r.event, NoErr, <<>>)]
    ELSE [ctl |-> c, done |-> FALSE, out |-> Return("Skip", r.event, NoErr, <<>>)]

\* One iteration of the for loop of Skip, with r the outcome of its NextToken
\* call: an error unwinds every frame, a StartTag pushes a frame, an EndTag
\* returns from the innermost one.
Skip(c, r) ==
    IF r.err # NoErr
    THEN [ctl |-> Idle, done |-> TRUE, out |-> Return("Skip", r.event, r.err, <<>>)]
    ELSE IF r.event = StartTag
    THEN [ctl |-> [c EXCEPT !.level = @ + 1], done |-> FALSE,
          out |-> Return("Skip", r.event, NoErr, <<>>)]
    ELSE IF r.event = EndTag
    THEN IF c.level = 1
         THEN [ctl |-> Idle, done |-> TRUE, out |-> Return("Skip", r.event, NoErr, <<>>)]
         ELSE [ctl |-> [c EXCEPT !.level = @ - 1], done |-> FALSE,
               out |-> Return("Skip", r.event, NoErr, <<>>)]
    ELSE [ctl |-> c, done |-> FALSE, out |-> Return("Skip", r.event, NoErr, <<>>)]

\* Mutant: ExpectAll does not compare the namespace.
ExpectAllAnySpace(q, event, space, name) ==
    IF ~(q.Event = event /\ (q.Name = name \/ name = "*"))
    THEN ErrExpected
    ELSE NoErr

\* ExpectAll: the error it returns with the parser at q.
ExpectAll(q, event, space, name) ==
    IF ~(q.Event = event /\ (q.Space = space \/ space = "*")
         /\ (q.Name = name \/ name = "*"))
    THEN ErrExpected
    ELSE NoErr

Expect(q, event, name) == ExpectAll(q, event, "*", name)

\* The arguments the caller passes to Expect and ExpectAll.
ExpectEvents == {StartTag}
ExpectSpaces == {"*", "u "}
ExpectNames == {"*", "b"}

\* ------------------------------------------------------------------ state
\* p: the XMLPullParser; d: its Decoder; ctl: the operation under way; out:
\* what the last finished call returned; h: what has been observed of the run
\* so far (it is written, never read, by the operations).
VARIABLES p, d, ctl, out, h

vars == <<p, d, ctl, out, h>>

\* The k-th token the decoder returned, for the two most recent k.
SourceToken(dc, k) ==
    IF k = dc.n /\ k > 0 THEN dc.last
    ELSE IF k = dc.n - 1 /\ k > 0 THEN dc.prev
    ELSE NilToken

\* The observations.  Of the whole run: k counts the NextToken calls that moved
\* the lookahead, nt is the outcome of the last NextToken call and src the
\* decoder's k-th token; run is the character data of the unbroken run of
\* CharData tokens that ends at src; starts/ends count the StartTag and EndTag
\* events, open lists the StartTag events not yet closed (with the attributes
\* of their tokens) and balanced says that
\* every EndTag event so far closed the innermost of them.  Of the caller's
\* operation under way (or last finished): at is the cursor it was called at,
\* stuck says that NextToken had returned an error before the call,
\* afterText that the call before it was a Next that returned Text,
\* afterSkip says that the call before it was a Skip that began on a StartTag
\* (at depth skipDepth) and returned nil, tags counts the tags delivered since the call, blank says
\* that all that was delivered before the first of them was white space
\* character data, content is
\* the character data delivered up to the first other token, closed says that
\* this other token was an end tag, and extra that tokens followed it.  Of the
\* Next call under way (or last finished): mid says that it began inside a run
\* of CharData tokens, bounds counts the tags and ends of input delivered,
\* pending is the character data delivered since the last tag, and cut says
\* that a comment, instruction or directive was delivered while character data
\* was pending.  on says that observations are made at all.  Of a NextTag or
\* NextText call: evs lists what its Next calls
\* returned, an event or "error", and ws says of each whether it was a Text
\* of white space only.  Of an Expect or ExpectAll call: expect holds its
\* arguments.
NoObservation ==
    [on |-> TRUE, stuck |-> FALSE, afterText |-> FALSE, k |-> 0, nt |-> [event |-> StartDocument, err |-> NoErr, pulled |-> FALSE],
     src |-> NilToken, run |-> <<>>, starts |-> 0, ends |-> 0, open |-> <<>>,
     balanced |-> TRUE,
     at |-> [Event |-> StartDocument, Depth |-> 0, Name |-> ""],
     afterSkip |-> FALSE, skipDepth |-> 0, tags |-> 0, blank |-> TRUE, content |-> <<>>, onlyText |-> TRUE,
     closed |-> FALSE, extra |-> FALSE,
     mid |-> FALSE, bounds |-> 0, pending |-> <<>>, cut |-> FALSE, evs |-> <<>>,
     ws |-> <<>>, expect |-> [event |-> StartDocument, space |-> "", name |-> ""]]

IsTag(t) == t.type \in {"StartElement", "EndElement"}

IsOther(t) == t.type \in {"Comment", "ProcInst", "Directive"}

\* The observations after a NextToken call with outcome r made under the
\* caller's operation op; inNext says that a Next call made it.
Observe(g, r, op, inNext) ==
    IF ~g.on THEN g
    ELSE IF ~r.pulled
    THEN [g EXCEPT !.nt = [event |-> r.event, err |-> r.err, pulled |-> FALSE]]
    ELSE
    LET k == g.k + 1
        src == SourceToken(r.d, k)
        atEnd == k > r.d.n /\ r.d.err = EOF
        top == IF g.open = <<>> THEN [Name |-> "", Depth |-> 0]
               ELSE g.open[Len(g.open)]
        text == op = "NextText"
    IN [g EXCEPT
          !.k = k,
          !.nt = [event |-> r.event, err |-> r.err, pulled |-> TRUE],
          !.src = src,
          !.run = IF src.type = "CharData"
                  THEN (IF g.src.type = "CharData" THEN g.run ELSE <<>>) \o src.Data
                  ELSE <<>>,
          !.starts = IF r.event = StartTag THEN @ + 1 ELSE @,
          !.ends = IF r.event = EndTag THEN @ + 1 ELSE @,
          !.open = IF r.event = StartTag
                   THEN Append(@, [Name |-> r.p.Name, Depth |-> r.p.Depth,
                                   Attr |-> src.Attr])
                   ELSE IF r.event = EndTag /\ @ # <<>>
                   THEN SubSeq(@, 1, Len(@) - 1)
                   ELSE @,
          !.balanced = IF r.event = EndTag
                       THEN @ /\ g.open # <<>> /\ top.Name = r.p.Name
                              /\ top.Depth = r.p.Depth + 1
                       ELSE @,
          !.tags = IF op = "NextTag" /\ IsTag(src) THEN @ + 1 ELSE @,
          !.blank = @ /\ (op # "NextTag" \/ g.tags > 0 \/ IsTag(src)
                          \/ (src.type = "CharData" /\ TrimSpace(src.Data) = <<>>)),
          !.content = IF text /\ g.onlyText /\ ~g.closed /\ src.type = "CharData"
                      THEN @ \o src.Data ELSE @,
          !.onlyText = @ /\ (~text \/ g.closed \/ src.type \in {"CharData", "EndElement"}),
          !.closed = @ \/ (text /\ g.onlyText /\ src.type = "EndElement"),
          !.extra = @ \/ (text /\ g.closed),
          !.bounds = IF inNext /\ (IsTag(src) \/ atEnd) THEN @ + 1 ELSE @,
          !.pending = IF ~inNext \/ IsTag(src) THEN <<>>
                      ELSE IF src.type = "CharData" THEN @ \o src.Data ELSE @,
          !.cut = @ \/ (inNext /\ IsOther(src) /\ g.pending # <<>>)]

\* The observations when a Next call begins with the decoder at dc.
ObserveNext(g, dc) ==
    IF ~g.on THEN g ELSE
    [g EXCEPT
       !.mid = g.src.type = "CharData" /\ dc.err = NoErr /\ dc.n > g.k
               /\ dc.last.type = "CharData",
       !.bounds = 0, !.pending = <<>>, !.cut = FALSE]

\* The observations when the caller invokes an operation at cursor q, the call
\* before it having returned o.
ObserveCall(g, q, o) ==
    IF ~g.on THEN g ELSE
    [g EXCEPT
       !.at = [Event |-> q.Event, Depth |-> q.Depth, Name |-> q.Name],
       !.stuck = g.nt.err # NoErr,
       !.afterText = o.op = "Next" /\ o.err = NoErr /\ o.event = Text,
       !.afterSkip = o.op = "Skip" /\ o.err = NoErr /\ g.at.Event = StartTag,
       !.skipDepth = IF o.op = "Skip" /\ o.err = NoErr /\ g.at.Event = StartTag
                     THEN g.at.Depth ELSE 0,
       !.tags = 0, !.blank = TRUE, !.content = <<>>, !.onlyText = TRUE, !.closed = FALSE,
       !.extra = FALSE,
       !.mid = FALSE, !.bounds = 0, !.pending = <<>>, !.cut = FALSE, !.evs = <<>>,
       !.ws = <<>>, !.expect = NoObservation.expect]

\* The observations when a Next call made by NextTag or NextText returns n.
ObserveReturn(g, op, n) ==
    IF g.on /\ n.done /\ op \in {"NextTag", "NextText"}
    THEN [g EXCEPT
            !.evs = Append(@, IF n.err = NoErr THEN n.event ELSE "error"),
            !.ws = Append(@, n.err = NoErr /\ n.event = Text
                             /\ TrimSpace(n.p.Text) = <<>>)]
    ELSE g

\* No call has returned: the value of out while an operation runs.
Running == Return("none", StartDocument, NoErr, <<>>)

Init ==
    /\ p = NewXMLPullParser
    /\ d = NewDecoder
    /\ ctl = Idle
    /\ out = Running
    /\ h = NoObservation

\* The caller calls NextToken.
CallNextToken ==
    /\ ctl.pc = "idle"
    /\ \E r \in NextToken(p, d) :
         /\ p' = r.p
         /\ d' = r.d
         /\ out' = Return("NextToken", r.event, r.err, <<>>)
         /\ h' = Observe(ObserveCall(h, p, out), r, "NextToken", FALSE)
    /\ UNCHANGED ctl

\* The entry of a Next call made for the caller's operation op.
BeginNext(op) ==
    /\ ctl' = [Idle EXCEPT !.pc = "Next", !.op = op, !.phase = 1]
    /\ h' = ObserveNext(ObserveCall(h, p, out), d)
    /\ out' = Running
    /\ UNCHANGED <<p, d>>

\* The caller calls Next: NextStep runs its loop.
CallNext ==
    /\ ctl.pc = "idle"
    /\ BeginNext("Next")

\* The caller calls NextTag, which begins with a call of Next.
CallNextTag ==
    /\ ctl.pc = "idle"
    /\ BeginNext("NextTag")

\* Mutant: NextText without the check of Event at its entry.
CallNextTextUnguarded ==
    /\ ctl.pc = "idle"
    /\ BeginNext("NextText")

\* The caller calls NextText: off a StartTag it returns an error at once, on
\* one it begins with a call of Next.
CallNextText ==
    /\ ctl.pc = "idle"
    /\ IF p.Event # StartTag
       THEN /\ out' = Return("NextText", StartDocument, ErrNotOnStartTag, <<>>)
            /\ h' = ObserveCall(h, p, out)
            /\ UNCHANGED <<p, d, ctl>>
       ELSE BeginNext("NextText")

\* One iteration of the loop of Next, and, when Next returns, the code of its
\* caller up to that caller's return or next call of Next.
NextStep ==
    /\ ctl.pc = "Next"
    /\ \E r \in NextToken(p, d) :
         LET n == Next(ctl.text, r)
             a == AfterNext(ctl, n.p, n.event, n.err)
             g == ObserveReturn(Observe(h, r, ctl.op, TRUE), ctl.op, n)
         IN /\ p' = n.p
            /\ d' = r.d
            /\ ctl' = IF n.done THEN a.ctl ELSE [ctl EXCEPT !.text = n.text]
            /\ out' = IF n.done /\ a.done THEN a.out ELSE out
            /\ h' = IF n.done /\ ~a.done THEN ObserveNext(g, r.d) ELSE g

\* The caller calls ExpectAll.
CallExpectAll ==
    /\ ctl.pc = "idle"
    /\ \E event \in ExpectEvents, space \in ExpectSpaces, name \in ExpectNames :
         /\ out' = Return("ExpectAll", StartDocument,
                          ExpectAll(p, event, space, name), <<>>)
         /\ h' = [ObserveCall(h, p, out) EXCEPT
                    !.expect = [event |-> event, space |-> space, name |-> name]]
    /\ UNCHANGED <<p, d, ctl>>

\* The caller calls Expect.
CallExpect ==
    /\ ctl.pc = "idle"
    /\ \E event \in ExpectEvents, name \in ExpectNames :
         /\ out' = Return("Expect", StartDocument, Expect(p, event, name), <<>>)
         /\ h' = [ObserveCall(h, p, out) EXCEPT
                    !.expect = [event |-> event, space |-> "*", name |-> name]]
    /\ UNCHANGED <<p, d, ctl>>

\* The caller calls Skip.
CallSkip ==
    /\ ctl.pc = "idle"
    /\ ctl' = [Idle EXCEPT !.pc = "Skip", !.op = "Skip", !.level = 1]
    /\ h' = ObserveCall(h, p, out)
    /\ out' = Running
    /\ UNCHANGED <<p, d>>

\* One iteration of the loop of the innermost Skip frame.
SkipStep ==
    /\ ctl.pc = "Skip"
    /\ \E r \in NextToken(p, d) :
         LET s == Skip(ctl, r)
         IN /\ p' = r.p
            /\ d' = r.d
            /\ ctl' = s.ctl
            /\ out' = IF s.done THEN s.out ELSE out
            /\ h' = Observe(h, r, ctl.op, FALSE)

Step ==
    \/ CallNextToken
    \/ CallNext
    \/ CallNextTag
    \/ CallNextText
    \/ NextStep
    \/ CallSkip
    \/ SkipStep

Spec == Init /\ [][Step]_vars

\* The program with no observations made of it.
InitUnobserved ==
    /\ p = NewXMLPullParser
    /\ d = NewDecoder
    /\ ctl = Idle
    /\ out = Running
    /\ h = [NoObservation EXCEPT !.on = FALSE]

\* The program is sequential: a loop of Next or Skip that is under way takes
\* its next iteration.  The caller is free to stop calling.
SpecFair ==
    InitUnobserved /\ [][Step]_vars /\ WF_vars(NextStep) /\ WF_vars(SkipStep)

\* Expect and ExpectAll only read the cursor: they are checked on every cursor
\* NextToken reaches, with the caller free to call them at each.
StepExpect ==
    \/ CallNextToken
    \/ CallExpectAll
    \/ CallExpect

SpecExpect == Init /\ [][StepExpect]_vars

\* ------------------------------------------------------------------ claims
\* The event kinds a token of the source may be reported as.
EventsOf(t) ==
    CASE t.type = "StartElement" -> {StartTag}
      [] t.type = "EndElement" -> {EndTag}
      [] t.type = "CharData" -> {Text, IgnorableWhitespace}
      [] t.type = "Comment" -> {Comment}
      [] t.type = "ProcInst" -> {ProcessingInstruction}
      [] t.type = "Directive" -> {Directive}
      [] OTHER -> {}

\* A call of op has returned and no other call has begun.
HasReturned(op) == ctl.pc = "idle" /\ out.op = op

\* C1: the k-th NextToken call that succeeds and moves the lookahead returns the
\* event kind of the k-th token of the source, and the one after the last
\* token returns EndDocument.
C1_NextTokenOneToOne ==
    (h.nt.pulled /\ h.nt.err = NoErr) =>
        IF h.k <= d.n
        THEN h.nt.event \in EventsOf(h.src)
        ELSE d.err = EOF /\ h.nt.event = EndDocument

\* C2: EndDocument is terminal: once the cursor is on EndDocument (NextToken or
\* Next has returned it), a NextToken or Next call that has returned returned
\* EndDocument with a nil error, no step changes Event or Depth, and io.EOF is
\* never stored or returned as an error.
C2_EndDocumentTerminal ==
    /\ [](/\ (p.Event = EndDocument /\ (HasReturned("NextToken") \/ HasReturned("Next")))
             => (out.event = EndDocument /\ out.err = NoErr)
          /\ (h.nt.event = EndDocument /\ h.nt.err = NoErr) => p.Event = EndDocument
          /\ out.err # EOF /\ h.nt.err # EOF /\ p.peekErr # EOF)
    /\ [][p.Event = EndDocument => (p'.Event = EndDocument /\ p'.Depth = p.Depth)]_vars

\* C2 witness: a Next call made after EndDocument was reached has returned.
C2_Witness ==
    /\ HasReturned("Next") /\ out.event = EndDocument
    /\ h.at.Event = EndDocument /\ ~h.nt.pulled

\* C3: Depth is never negative, is the number of StartTag events minus the
\* number of EndTag events, every EndTag event closes the innermost open
\* StartTag event (same name, back to the depth below it), and Depth is 0 on
\* EndDocument.
C3_DepthBalanced ==
    /\ p.Depth >= 0
    /\ p.Depth = h.starts - h.ends
    /\ p.Depth = Len(h.open)
    /\ h.balanced
    /\ p.Event = EndDocument => p.Depth = 0

\* C3 witness: two nested elements were opened and closed and the document ended.
C3_Witness ==
    /\ p.Event = EndDocument /\ h.starts = 2 /\ h.ends = 2 /\ h.k = 5

\* C4: when the source fails after n tokens, exactly the first n NextToken
\* calls succeed and the next one returns the source's error; for n = 0 the
\* first call fails.
C4_ErrorAfterNTokens ==
    /\ (h.nt.err = NoErr /\ d.err = SyntaxError) => h.k <= d.n
    /\ h.nt.err # NoErr => (h.nt.err = SyntaxError /\ d.err = SyntaxError /\ h.k = d.n)

\* C5: a Text that Next returns carries the character data of one whole run of
\* CharData tokens, in order: the run does not go on after it, and (when the
\* call did not begin inside the run) nothing of the run came before it.
C5_TextIsWholeRun ==
    (HasReturned("Next") /\ out.err = NoErr /\ out.event = Text /\ ~h.mid) =>
        /\ p.Text = h.run
        /\ ~(d.err = NoErr /\ d.n > h.k /\ d.last.type = "CharData")

\* C5 witness: Next returned a Text made of two CharData tokens.
C5_Witness ==
    /\ HasReturned("Next") /\ out.err = NoErr /\ out.event = Text /\ ~h.mid
    /\ h.run = <<" ", "x">> /\ h.at.Event = StartTag

\* C6: Next consumes no Comment, ProcessingInstruction or Directive token
\* while character data it has consumed is still to be returned: the data is
\* returned as a Text event first.
C6_NonTextEndsMerge == ~h.cut

\* C7: a Next call that succeeds returns StartTag, EndTag, Text or EndDocument,
\* Event is what it returns, and it consumes no token past the first start
\* tag, end tag or end of input.
C7_NextReturnsBoundary ==
    /\ ctl.pc = "Next" => h.bounds = 0
    /\ (ctl.pc = "idle" /\ out.op \in {"Next", "NextTag", "NextText"}) => h.bounds <= 1
    /\ (HasReturned("Next") /\ out.err = NoErr) =>
          /\ out.event \in {StartTag, EndTag, Text, EndDocument}
          /\ p.Event = out.event
          /\ h.bounds = 1 => out.event \in {StartTag, EndTag, EndDocument}
          /\ out.event \in {StartTag, EndTag} => h.bounds = 1

\* C7 witness: Next passed over a token that is no tag and returned the StartTag
\* after it.
C7_Witness ==
    /\ HasReturned("Next") /\ out.err = NoErr /\ out.event = StartTag
    /\ h.at.Event = StartDocument /\ h.k = 2

\* C8: Skip called on a StartTag at depth D returns nil on the EndTag of that
\* element (same name, depth D-1), whatever the subtree holds; it fails only
\* with the decoder's error.
C8_SkipToMatchingEnd ==
    (HasReturned("Skip") /\ h.at.Event = StartTag) =>
        IF out.err = NoErr
        THEN p.Event = EndTag /\ p.Name = h.at.Name /\ p.Depth = h.at.Depth - 1
        ELSE out.err = SyntaxError /\ d.err = SyntaxError

\* C8 witness: Skip returned nil from <a> over a nested <P:b xmlns:P=..>.
C8_Witness ==
    /\ HasReturned("Skip") /\ out.err = NoErr
    /\ h.at = [Event |-> StartTag, Depth |-> 1, Name |-> "a"]
    /\ h.starts = 2 /\ h.ends = 2 /\ DOMAIN p.Spaces # {}

\* C9: the NextTag call after a successful Skip of an element at depth D, when
\* it succeeds, has delivered exactly one tag: the StartTag of the next sibling
\* (depth D) or the EndTag of the parent (depth D-2); and it succeeds when
\* only white space text lies before that tag.
C9_NextTagAfterSkip ==
    /\ (HasReturned("NextTag") /\ out.err = NoErr /\ h.afterSkip) =>
          /\ h.tags = 1
          /\ p.Event = out.event
          /\ \/ out.event = StartTag /\ p.Depth = h.skipDepth
             \/ out.event = EndTag /\ p.Depth = h.skipDepth - 2
    /\ (HasReturned("NextTag") /\ h.afterSkip /\ h.blank /\ h.tags > 0) =>
          out.err = NoErr

\* C9 witness: after a Skip over an element, NextTag passed over white space
\* and returned the StartTag of the sibling.
C9_Witness ==
    /\ HasReturned("NextTag") /\ out.err = NoErr /\ h.afterSkip
    /\ out.event = StartTag /\ p.Depth = 2 /\ h.k = 5 /\ h.starts = 3
    /\ d.prev.type = "CharData" /\ h.blank

\* C10: NextText called on a StartTag at depth D of an element that holds only
\* character data (or nothing) returns that character data unchanged and a
\* nil error, on the EndTag of the element at depth D-1.
C10_NextTextOfTextElement ==
    (HasReturned("NextText") /\ h.at.Event = StartTag /\ h.closed) =>
        /\ out.err = NoErr
        /\ out.str = h.content
        /\ p.Event = EndTag /\ p.Depth = h.at.Depth - 1 /\ p.Name = h.at.Name
        /\ ~h.extra

\* C10 witness: NextText returned white space untrimmed.
C10_Witness ==
    /\ HasReturned("NextText") /\ h.at.Event = StartTag /\ h.closed
    /\ h.content = <<" ", " ">> /\ out.str = <<" ", " ">>

\* C11: NextText called on a StartTag fails, and returns the empty string,
\* when its first Next returns something other than Text or EndTag (a nested
\* StartTag, EndDocument) and when the Next after a Text returns something
\* other than EndTag; no failing NextText returns a text.
C11_NextTextFailsEmpty ==
    (HasReturned("NextText") /\ h.at.Event = StartTag) =>
        /\ (h.evs # <<>> /\ h.evs[1] \notin {Text, EndTag}) =>
              (out.err # NoErr /\ out.str = <<>> /\ Len(h.evs) = 1)
        /\ (Len(h.evs) = 2 /\ h.evs[1] = Text /\ h.evs[2] # EndTag) =>
              (out.err # NoErr /\ out.str = <<>>)
        /\ out.err # NoErr => out.str = <<>>
        /\ out.err = NoErr => h.evs[Len(h.evs)] = EndTag

\* C11 witness: NextText read the text "x" and then a nested StartTag, and
\* failed.
C11_Witness ==
    /\ HasReturned("NextText") /\ h.at.Event = StartTag
    /\ h.evs = <<Text, StartTag>> /\ out.err = ErrTextNotFollowedByEndTag
    /\ p.Text = <<>> /\ h.k = 3 /\ d.prev.type = "CharData" /\ d.prev.Data = <<"x">>

\* C12: a NextText call made while Event is not StartTag returns a non-nil
\* error with the empty string at once: it pulls no token (the decoder is as
\* it was) and leaves every field of the parser, the lookahead included, as
\* it was.
C12_NextTextOffStartTag ==
    [][(ctl.pc = "idle" /\ p.Event # StartTag
          /\ (ctl'.op = "NextText" \/ (out'.op = "NextText" /\ out' # out)
               \/ (out'.op = "NextText" /\ h'.at # h.at)))
       => /\ ctl'.pc = "idle" /\ out'.op = "NextText"
          /\ out'.err = ErrNotOnStartTag /\ out'.str = <<>>
          /\ p' = p /\ d' = d /\ h'.k = h.k]_vars

\* C12 witness: NextText was called on a Text event and has returned its
\* error, the text and the lookahead still in place.
C12_Witness ==
    /\ HasReturned("NextText") /\ out.err = ErrNotOnStartTag
    /\ h.at.Event = Text /\ p.Event = Text /\ p.Text = <<"x">>
    /\ p.Depth = 1 /\ p.peekEvent = EndTag

\* What NextTag has to judge: what its first Next returned or, when that was a
\* Text of white space only, what its second Next returned.
ResultingEvent ==
    IF h.ws[1] /\ Len(h.evs) > 1 THEN h.evs[2] ELSE h.evs[1]

\* C13: NextTag calls Next, and once more when that returned a Text of white
\* space only; it returns (e, nil) exactly when the resulting event e is
\* StartTag or EndTag, Event then being e, and a non-nil error when it is a
\* Text (not of white space only) or EndDocument, or when Next failed.
C13_NextTagResult ==
    HasReturned("NextTag") =>
        /\ Len(h.evs) = (IF h.ws[1] THEN 2 ELSE 1)
        /\ out.err = NoErr <=> ResultingEvent \in {StartTag, EndTag}
        /\ out.err = NoErr => (out.event = ResultingEvent /\ p.Event = ResultingEvent)
        /\ ResultingEvent \in {Text, EndDocument} => out.err = ErrExpectedTag
        /\ ResultingEvent = "error" => out.err = SyntaxError
        /\ ResultingEvent \in {StartTag, EndTag, Text, EndDocument, "error"}

\* C13 witness: NextTag passed over a Text of white space and returned the
\* EndTag after it.
C13_Witness ==
    /\ HasReturned("NextTag") /\ h.evs = <<Text, EndTag>> /\ h.ws = <<TRUE, FALSE>>
    /\ out.err = NoErr /\ out.event = EndTag /\ p.Event = EndTag

\* C14: a NextToken call that delivers a CharData token reports it as
\* IgnorableWhitespace when its data, trimmed of white space, is empty, and as
\* Text when it is not.
C14_WhitespaceIsIgnorable ==
    (h.nt.pulled /\ h.nt.err = NoErr /\ h.k <= d.n /\ h.src.type = "CharData") =>
        h.nt.event = (IF TrimSpace(h.src.Data) = <<>> THEN IgnorableWhitespace ELSE Text)

\* C15: Event is StartDocument only before the first NextToken call (made by
\* the caller or by Next): no NextToken call returns StartDocument with a nil
\* error, and once one has been made Event is not StartDocument, whatever the
\* token stream.
C15_StartDocumentOnlyAtStart ==
    /\ ~(h.nt.pulled /\ h.nt.err = NoErr /\ h.nt.event = StartDocument)
    /\ h.nt # NoObservation.nt => p.Event # StartDocument
    /\ (HasReturned("NextToken") \/ HasReturned("Next")) => p.Event # StartDocument

\* The namespace declarations among the attributes attrs of a start tag, as
\* written: xmlns:prefix="uri" and xmlns="uri".
RECURSIVE Declared(_)
Declared(attrs) ==
    IF attrs = <<>> THEN {}
    ELSE LET attr == Head(attrs)
         IN (IF attr.Space = "xmlns"
             THEN {[uri |-> attr.Value, prefix |-> attr.Local]}
             ELSE IF attr.Space = "" /\ attr.Local = <<"x", "m", "l", "n", "s">>
             THEN {[uri |-> attr.Value, prefix |-> <<>>]}
             ELSE {})
            \cup Declared(Tail(attrs))

\* The table maps uri to prefix.
InTable(uri, prefix) == uri \in DOMAIN p.Spaces /\ p.Spaces[uri] = prefix

C17_DeclarationsRemoved ==
    \A uri \in DOMAIN p.Spaces :
        \E i \in 1..Len(h.open) :
            \E dcl \in Declared(h.open[i].Attr) :
                /\ TrimSpace(dcl.uri) = uri
                /\ TrimSpace(ToLower(dcl.prefix)) = p.Spaces[uri]

\* C18: the base-URI stack has one entry for each open element, so its length
\* is Depth; a step that processes a StartTag pushes exactly one entry, one
\* that processes an EndTag pops exactly one, any other leaves the stack as
\* it is; and Top() is the undefined value when no element is open.
C18_BaseStackTracksDepth ==
    /\ [](/\ Len(p.BaseStack) = p.Depth
          /\ Len(p.BaseStack) = Len(h.open)
          /\ h.open = <<>> => Top(p.BaseStack) = NoURL)
    /\ [][/\ h'.starts = h.starts + 1 =>
               SubSeq(p'.BaseStack, 1, Len(p'.BaseStack) - 1) = p.BaseStack
          /\ h'.ends = h.ends + 1 =>
               p'.BaseStack = SubSeq(p.BaseStack, 1, Len(p.BaseStack) - 1)
          /\ (h'.starts = h.starts /\ h'.ends = h.ends) =>
               p'.BaseStack = p.BaseStack]_vars

\* C18 witness: two elements are open after a third was opened and closed,
\* and the stack has two entries.
C18_Witness ==
    /\ h.starts = 3 /\ h.ends = 1 /\ p.Depth = 2 /\ Len(p.BaseStack) = 2
    /\ h.open[2].Name = "a" /\ p.Event = StartTag

\* C19: the entry of an open element without xml:base is the entry of its
\* parent (the undefined value for a root), whatever siblings were opened and
\* closed before it.
C19_BaseInherited ==
    \A i \in 1..Len(h.open) :
        (i <= Len(p.BaseStack) /\ baseAttr(h.open[i].Attr) = <<>>) =>
            p.BaseStack[i] = (IF i = 1 THEN NoURL ELSE p.BaseStack[i - 1])

\* C19 witness: the cursor is on the StartTag of <a>, inside <P:b
\* xml:base="r/"> and after a sibling <P:b xml:base="r/"> (base r/r/) was
\* closed; the top is the base r/ of the parent.
C19_Witness ==
    /\ p.Event = StartTag /\ p.Name = "a" /\ h.starts = 3 /\ h.ends = 1
    /\ Len(h.open) = 2 /\ h.open[1].Name = "b"
    /\ d.n = 4 /\ d.prev.type = "EndElement" /\ d.prev.Local = "b"
    /\ Top(p.BaseStack) = [root |-> <<>>, rooted |-> FALSE, path |-> << <<"r">> >>, dir |-> TRUE]
    /\ Top(p.BaseStack) = p.BaseStack[1]

\* The cursor is what the last Expect or ExpectAll call asked for.
Matches ==
    /\ p.Event = h.expect.event
    /\ h.expect.space = "*" \/ p.Space = h.expect.space
    /\ h.expect.name = "*" \/ p.Name = h.expect.name

\* C20: ExpectAll(event, space, name) returns nil exactly when Event = event,
\* space is "*" or Space, and name is "*" or Name, and an error otherwise;
\* Expect(event, name) returns what ExpectAll(event, "*", name) returns; a
\* call of either leaves the parser and the decoder as they were.
C20_ExpectMatches ==
    /\ [](/\ HasReturned("ExpectAll") =>
               (IF Matches THEN out.err = NoErr ELSE out.err = ErrExpected)
          /\ HasReturned("Expect") =>
               /\ h.expect.space = "*"
               /\ out.err = ExpectAll(p, h.expect.event, "*", h.expect.name)
               /\ IF Matches THEN out.err = NoErr ELSE out.err = ErrExpected)
    /\ [][(out'.op \in {"Expect", "ExpectAll"} /\ <<out, h>>' # <<out, h>>)
            => (p' = p /\ d' = d /\ ctl' = ctl)]_vars

\* C20 witness: on the StartTag of <a>, ExpectAll(StartTag, "u ", "*") has
\* failed on the namespace alone.
C20_Witness ==
    /\ HasReturned("ExpectAll") /\ out.err = ErrExpected
    /\ h.expect = [event |-> StartTag, space |-> "u ", name |-> "*"]
    /\ p.Event = StartTag /\ p.Name = "a" /\ p.Space = ""

\* C21: after a NextToken call that delivers a start tag or an end tag, Name
\* and Space are the local name and the namespace of that tag; after one that
\* delivers any other token both are empty.
C21_NameSpaceOfTag ==
    (h.nt.pulled /\ h.nt.err = NoErr /\ h.k <= d.n) =>
        IF IsTag(h.src)
        THEN p.Name = h.src.Local /\ p.Space = h.src.Space
        ELSE p.Name = "" /\ p.Space = ""

\* The table of the declarations in lexical scope: those of the open elements,
\* outermost first, so that an inner declaration of a uri hides an outer one
\* while its element is open.
RECURSIVE ScopeTable(_)
ScopeTable(open) ==
    IF open = <<>> THEN << >>
    ELSE trackAttrs(ScopeTable(SubSeq(open, 1, Len(open) - 1)), open[Len(open)].Attr)

\* C22: at every point the table holds exactly the declarations in lexical
\* scope: those of the elements that are open, an ancestor's declaration of a
\* uri being there again once a descendant that declared the same uri has
\* closed, and nothing of an element that has closed.
C22_TableIsScope == p.Spaces = ScopeTable(h.open)

\* C23: a Skip call returns, wherever the cursor is when it is made: a Skip
\* that is under way leads to its return.
C23_SkipReturns == (ctl.pc = "Skip") ~> (ctl.pc = "idle")

\* C24: a Next, NextTag or NextText call returns: a Next loop that is under
\* way leads to the return of the operation that runs it.
C24_NextReturns == (ctl.pc = "Next") ~> (ctl.pc = "idle")

\* C24 witness: NextTag has returned (its error) at the end of an input that
\* ends in a directive and an empty CharData.
C24_Witness ==
    /\ HasReturned("NextTag") /\ out.err = ErrExpectedTag /\ p.Event = EndDocument
    /\ d.err = EOF /\ d.prev.type = "Directive"
    /\ d.last.type = "CharData" /\ d.last.Data = <<>>

\* C25: when a NextToken call made by Skip, at whatever nesting level, returns
\* an error, that step ends the whole Skip call (no frame is left), Skip
\* returns that same error, and the step pulls no token from the decoder.
C25_SkipReturnsError ==
    [][(ctl.pc = "Skip" /\ h'.nt.err # NoErr) =>
          /\ ctl' = Idle
          /\ out'.op = "Skip" /\ out'.err = h'.nt.err
          /\ d' = d]_vars

\* C25 witness: Skip, called on a StartTag, has returned a syntax error that
\* NextToken returned inside a nested element.
C25_Witness ==
    /\ HasReturned("Skip") /\ out.err = SyntaxError /\ h.nt.err = SyntaxError
    /\ h.at.Event = StartTag /\ p.Depth > h.at.Depth

\* C26: Attrs is non-empty only on a StartTag; after NextToken delivers a
\* StartTag Attrs is the attribute list of that tag, in order; Text is empty
\* whenever Event is StartTag, EndTag, StartDocument or EndDocument; and after
\* a NextToken call that returned an error, or returned without moving the
\* lookahead (EndDocument), both are empty.
C26_AttrsAndTextOfToken ==
    /\ p.Attrs # <<>> => p.Event = StartTag
    /\ (h.nt.pulled /\ h.nt.err = NoErr /\ h.nt.event = StartTag) =>
           p.Attrs = h.src.Attr
    /\ p.Event \in {StartTag, EndTag, StartDocument, EndDocument} => p.Text = <<>>
    /\ (h.nt.err # NoErr \/ ~h.nt.pulled) => (p.Attrs = <<>> /\ p.Text = <<>>)

\* C26 witness: a NextToken call has returned an error with the cursor on a
\* StartTag that has attributes, and Attrs is empty.
C26_Witness ==
    /\ h.nt.err = SyntaxError /\ p.Event = StartTag /\ h.src.type = "StartElement"
    /\ h.src.Attr # <<>> /\ p.Attrs = <<>>

\* The last NextToken call returned an error.
Stuck == h.nt.err # NoErr

\* C27: once NextToken has returned a lexical error, a NextToken, Next, NextTag
\* or Skip call that has returned returned that error, and no step pulls or
\* delivers a token, changes what NextToken returns, or changes Depth or Event.
C27_ErrorIsSticky ==
    /\ [](Stuck =>
            /\ h.nt.err = SyntaxError /\ h.nt.err = p.peekErr
            /\ out.op \in {"NextToken", "Next", "NextTag", "Skip"} =>
                   out.err = h.nt.err)
    /\ [][Stuck =>
            /\ d' = d /\ h'.k = h.k /\ h'.nt = h.nt
            /\ p'.Depth = p.Depth /\ p'.Event = p.Event]_vars

\* C27 witness: a Skip call made after NextToken had returned a syntax error
\* inside an element has returned.
C27_Witness ==
    /\ HasReturned("Skip") /\ h.stuck /\ out.err = SyntaxError /\ p.Depth > 0

\* C28: when Next has returned Text, the lookahead slot holds the kind of the
\* token the decoder returned last, a StartTag or an EndTag, or EndDocument at
\* the end of the input, and no error is stored; and a successful Next call
\* made right after a Next call that returned Text returns StartTag, EndTag or
\* EndDocument.
C28_NoTwoTexts ==
    /\ (HasReturned("Next") /\ out.err = NoErr /\ out.event = Text) =>
          /\ p.peekEvent \in {StartTag, EndTag, EndDocument}
          /\ p.peekErr = NoErr
          /\ IF d.err = EOF THEN p.peekEvent = EndDocument
             ELSE d.err = NoErr /\ p.peekEvent = eventType(d.last)
    /\ (HasReturned("Next") /\ out.err = NoErr /\ h.afterText) =>
          out.event \in {StartTag, EndTag, EndDocument}

\* C28 witness: a Next call made right after a Next call that returned Text has
\* returned a StartTag.
C28_Witness ==
    HasReturned("Next") /\ h.afterText /\ out.err = NoErr /\ out.event = StartTag

====
